---- MODULE Spec2Model ----
(***************************************************************************)
(* Model of packages/data-context/src/actions/DataEmitterActions.ts:       *)
(* the EventEmitter `pub`, the emitting methods of DataEmitterEvents and   *)
(* the async iterator returned by DataEmitterActions.subscribeTo.          *)
(*                                                                         *)
(* A bridge is one call of subscribeTo: its closure variables              *)
(* (hasSentInitial, dfd), the listener `subscribed` it registers on `pub`, *)
(* and the calls of next() made on it.  A promise made by pDefer() is      *)
(* identified by the next() call that made it.  The continuation of        *)
(* `await dfd.promise` is a job of the microtask queue.                    *)
(***************************************************************************)
EXTENDS Integers, Sequences, FiniteSets, TLC

\* ---- bounds of the model ----
MaxBridges == 2
MaxPulls == 2
MaxSignals == 3
MaxReturns == 2
\* all calls together; see CallCount
MaxCalls == 8

\* ---- values ----
Events == {"authChange", "devChange", "browserStatusChange"}
Undefined == "undefined"
EmptyObj == "{}"
Payloads == {"p1"}
\* argument lists a caller passes to _emit after the event name
ArgLists == {<<>>} \cup {<<p>> : p \in Payloads}

VARIABLES
    listeners,   \* pub: event name -> listeners in registration order (bridge ids)
    bridges,     \* the subscribeTo closures, in the order they were opened
    microtasks,  \* queued continuations of `await dfd.promise`: <<bridge, pull>>
    emitted      \* history: how many times _emit was called

\* ctx.coreData.app and the addProject calls of ProjectActions
VARIABLES
    projects,       \* coreData.app.projects: records [projectRoot], in list order
    activeProject,  \* coreData.app.activeProject: a projectRoot, or Null
    adds,           \* the addProject calls, in the order they were made
    cache           \* history: the arguments of api.insertProjectToCache, in call order

Null == "null"

emitterVars == <<listeners, bridges, microtasks, emitted>>
ctxVars == <<projects, activeProject, adds, cache>>
vars == <<listeners, bridges, microtasks, emitted, projects, activeProject, adds, cache>>

Bridges == 1..Len(bridges)

\* the bridge's listener is in pub's listener array of its event
Registered(b) ==
    \E i \in 1..Len(listeners[bridges[b].evt]) : listeners[bridges[b].evt][i] = b

RECURSIVE SumLen(_, _, _)
SumLen(f, brs, i) ==
    IF i = 0 THEN 0
    ELSE SumLen(f, brs, i - 1) + (IF f = "pulls" THEN Len(brs[i].pulls) ELSE Len(brs[i].returns))

\* how many next() and return() calls have been made on all bridges
PullCount == SumLen("pulls", bridges, Len(bridges))
ReturnCount == SumLen("returns", bridges, Len(bridges))
\* the calls made so far.  A subscribeTo call counts twice: every open bridge
\* multiplies what the later calls can do.
CallCount == 2 * Len(bridges) + PullCount + ReturnCount + emitted

\* ---- EventEmitter ----

\* emitter.on(evt, fn): append to the event's listener array
on(ls, b) == Append(ls, b)

RECURSIVE LastIndexOf(_, _, _)
LastIndexOf(ls, b, i) ==
    IF i = 0 THEN 0
    ELSE IF ls[i] = b THEN i
    ELSE LastIndexOf(ls, b, i - 1)

RemoveAt(ls, i) == SubSeq(ls, 1, i - 1) \o SubSeq(ls, i + 1, Len(ls))

\* emitter.off(evt, fn) = removeListener: removes the most recently added
\* instance of fn, or nothing when fn is not registered
\* variants of off: removeAllListeners(evt); splice at indexOf without the
\* -1 test; no removal
offAll(ls, b) == <<>>
offSpliceIndexOf(ls, b) ==
    LET i == LastIndexOf(ls, b, Len(ls))
    IN  IF Len(ls) = 0 THEN ls
        ELSE IF i = 0 THEN RemoveAt(ls, Len(ls)) ELSE RemoveAt(ls, i)
offNone(ls, b) == ls
off(ls, b) ==
    LET i == LastIndexOf(ls, b, Len(ls))
    IN  IF i = 0 THEN ls ELSE RemoveAt(ls, i)

\* ---- subscribeTo ----

\* the closure of one subscribeTo call.  dfd is the number of the next() call
\* whose promise it holds, 0 for undefined.  heard and ignored are history:
\* every value the listener `subscribed` was called with, in order, and how
\* many _emit calls on evt did not call it because it was not registered.
NewBridge(evt, sendInitial) ==
    [evt |-> evt, sendInitial |-> sendInitial, hasSentInitial |-> FALSE,
     dfd |-> 0, pulls |-> <<>>, returns |-> <<>>, heard |-> <<>>,
     ignored |-> 0]

\* deferred.resolve(val): settles the promise once; later calls do nothing.
\* The suspended next() is queued to continue.
\* variant of resolve: a later call replaces the value
resolveAgain(st, b, k, val) ==
    [bridges |-> [st.bridges EXCEPT ![b].pulls[k].promise = "fulfilled",
                                    ![b].pulls[k].val = val,
                                    ![b].pulls[k].by = Len(st.bridges[b].heard)],
     microtasks |-> IF st.bridges[b].pulls[k].promise = "pending"
                    THEN Append(st.microtasks, <<b, k>>)
                    ELSE st.microtasks]
resolve(st, b, k, val) ==
    IF st.bridges[b].pulls[k].promise = "pending"
    THEN [bridges |-> [st.bridges EXCEPT ![b].pulls[k].promise = "fulfilled",
                                         ![b].pulls[k].val = val,
                                         ![b].pulls[k].by = Len(st.bridges[b].heard)],
          microtasks |-> Append(st.microtasks, <<b, k>>)]
    ELSE st

Hear(st, b, val) ==
    [st EXCEPT !.bridges[b].heard = Append(@, val)]

\* variant of subscribed: dfd is set to undefined once resolved
subscribedClears(st, b, val) ==
    IF st.bridges[b].dfd = 0
    THEN Hear(st, b, val)
    ELSE LET r == resolve(Hear(st, b, val), b, st.bridges[b].dfd, val)
         IN  [r EXCEPT !.bridges[b].dfd = 0]
\* variant of subscribed: dfd?.resolve() without the value
subscribedNoVal(st, b, val) ==
    IF st.bridges[b].dfd = 0
    THEN Hear(st, b, val)
    ELSE resolve(Hear(st, b, val), b, st.bridges[b].dfd, Undefined)
\* function subscribed (val) { dfd?.resolve(val) }
subscribed(st, b, val) ==
    IF st.bridges[b].dfd = 0
    THEN Hear(st, b, val)
    ELSE resolve(Hear(st, b, val), b, st.bridges[b].dfd, val)

\* the first argument after the event name is the listener's `val`
FirstArg(args) == IF Len(args) = 0 THEN Undefined ELSE args[1]

\* pub.emit(evt, ...args): calls a copy of the listener array in order
RECURSIVE emit(_, _, _)
\* variant of emit: only the first listener is called
emitFirstOnly(st, ls, args) ==
    IF Len(ls) = 0 THEN st
    ELSE subscribed(st, Head(ls), FirstArg(args))
emit(st, ls, args) ==
    IF Len(ls) = 0 THEN st
    ELSE emit(subscribed(st, Head(ls), FirstArg(args)), Tail(ls), args)

\* ---- operations ----

\* subscribeTo(evt, sendInitial)
Open(evt, sendInitial) ==
    /\ Len(bridges) < MaxBridges
    /\ CallCount < MaxCalls
    /\ bridges' = Append(bridges, NewBridge(evt, sendInitial))
    /\ listeners' = [listeners EXCEPT ![evt] = on(@, Len(bridges) + 1)]
    /\ UNCHANGED <<microtasks, emitted>>
    /\ UNCHANGED ctxVars

\* a next() call that returned the initial value: no promise was made
InitialPull(br) ==
    [kind |-> "initial", promise |-> "none", val |-> Undefined,
     born |-> Len(br.heard), by |-> 0,
     out |-> <<[done |-> FALSE, value |-> EmptyObj]>>]

\* a next() call suspended at `await dfd.promise`.  born and by are history:
\* how many values the listener had heard when the call was made, and which
\* of them fulfilled the promise (0: none yet).
WaitPull(br) ==
    [kind |-> "wait", promise |-> "pending", val |-> Undefined,
     born |-> Len(br.heard), by |-> 0, out |-> <<>>]


\* variant of next(): the listener is registered by each suspended call
NextRegisters(b) ==
    /\ b \in Bridges
    /\ PullCount < MaxPulls
    /\ CallCount < MaxCalls
    /\ IF ~bridges[b].hasSentInitial /\ bridges[b].sendInitial
       THEN /\ bridges' = [bridges EXCEPT ![b].hasSentInitial = TRUE,
                                          ![b].pulls = Append(@, InitialPull(bridges[b]))]
            /\ UNCHANGED listeners
       ELSE /\ bridges' = [bridges EXCEPT ![b].pulls = Append(@, WaitPull(bridges[b])),
                                          ![b].dfd = Len(bridges[b].pulls) + 1]
            /\ listeners' = [listeners EXCEPT ![bridges[b].evt] = on(@, b)]
    /\ UNCHANGED <<microtasks, emitted>>
    /\ UNCHANGED ctxVars
\* variant of next(): hasSentInitial is never set
NextForgetsFlag(b) ==
    /\ b \in Bridges
    /\ PullCount < MaxPulls
    /\ CallCount < MaxCalls
    /\ IF ~bridges[b].hasSentInitial /\ bridges[b].sendInitial
       THEN bridges' = [bridges EXCEPT ![b].pulls = Append(@, InitialPull(bridges[b]))]
       ELSE bridges' = [bridges EXCEPT ![b].pulls = Append(@, WaitPull(bridges[b])),
                                       ![b].dfd = Len(bridges[b].pulls) + 1]
    /\ UNCHANGED <<listeners, microtasks, emitted>>
    /\ UNCHANGED ctxVars
\* variant of next(): dfd is kept when there is one
NextKeepsDfd(b) ==
    /\ b \in Bridges
    /\ PullCount < MaxPulls
    /\ CallCount < MaxCalls
    /\ IF ~bridges[b].hasSentInitial /\ bridges[b].sendInitial
       THEN bridges' = [bridges EXCEPT ![b].hasSentInitial = TRUE,
                                       ![b].pulls = Append(@, InitialPull(bridges[b]))]
       ELSE bridges' = [bridges EXCEPT ![b].pulls = Append(@, WaitPull(bridges[b])),
                                       ![b].dfd = IF @ = 0
                                                  THEN Len(bridges[b].pulls) + 1
                                                  ELSE @]
    /\ UNCHANGED <<listeners, microtasks, emitted>>
    /\ UNCHANGED ctxVars
\* variants of next(): without the initial value; with the last heard value
\* kept for the next call
NextAlwaysWaits(b) ==
    /\ b \in Bridges
    /\ PullCount < MaxPulls
    /\ CallCount < MaxCalls
    /\ bridges' = [bridges EXCEPT ![b].pulls = Append(@, WaitPull(bridges[b])),
                                  ![b].dfd = Len(bridges[b].pulls) + 1]
    /\ UNCHANGED <<listeners, microtasks, emitted>>
    /\ UNCHANGED ctxVars
NextBuffered(b) ==
    /\ b \in Bridges
    /\ PullCount < MaxPulls
    /\ CallCount < MaxCalls
    /\ IF ~bridges[b].hasSentInitial /\ bridges[b].sendInitial
       THEN /\ bridges' = [bridges EXCEPT ![b].hasSentInitial = TRUE,
                                          ![b].pulls = Append(@, InitialPull(bridges[b]))]
            /\ UNCHANGED microtasks
       ELSE IF Len(bridges[b].heard) > 0
       THEN /\ bridges' = [bridges EXCEPT
                             ![b].pulls = Append(@,
                                [WaitPull(bridges[b]) EXCEPT
                                   !.promise = "fulfilled",
                                   !.val = bridges[b].heard[Len(bridges[b].heard)],
                                   !.by = Len(bridges[b].heard)]),
                             ![b].dfd = Len(bridges[b].pulls) + 1]
            /\ microtasks' = Append(microtasks, <<b, Len(bridges[b].pulls) + 1>>)
       ELSE /\ bridges' = [bridges EXCEPT ![b].pulls = Append(@, WaitPull(bridges[b])),
                                          ![b].dfd = Len(bridges[b].pulls) + 1]
            /\ UNCHANGED microtasks
    /\ UNCHANGED <<listeners, emitted>>
    /\ UNCHANGED ctxVars
\* iterator.next()
Next_(b) ==
    /\ b \in Bridges
    /\ PullCount < MaxPulls
    /\ CallCount < MaxCalls
    /\ IF ~bridges[b].hasSentInitial /\ bridges[b].sendInitial
       THEN bridges' = [bridges EXCEPT ![b].hasSentInitial = TRUE,
                                       ![b].pulls = Append(@, InitialPull(bridges[b]))]
       ELSE bridges' = [bridges EXCEPT ![b].pulls = Append(@, WaitPull(bridges[b])),
                                       ![b].dfd = Len(bridges[b].pulls) + 1]
    /\ UNCHANGED <<listeners, microtasks, emitted>>
    /\ UNCHANGED ctxVars

\* one return() call: what it returned, and (history) the dfd it overwrote
ReturnCall(br) ==
    [out |-> [done |-> TRUE, value |-> Undefined], dfd |-> br.dfd]

\* variant of return(): the listener is left registered
ReturnLeaks(b) ==
    /\ b \in Bridges
    /\ ReturnCount < MaxReturns
    /\ CallCount < MaxCalls
    /\ bridges' = [bridges EXCEPT
                     ![b].dfd = 0,
                     ![b].returns = Append(@, ReturnCall(bridges[b]))]
    /\ UNCHANGED <<listeners, microtasks, emitted>>
    /\ UNCHANGED ctxVars
\* variant of return(): resolves the promise it drops
ReturnResolves(b) ==
    /\ b \in Bridges
    /\ ReturnCount < MaxReturns
    /\ CallCount < MaxCalls
    /\ listeners' = [listeners EXCEPT ![bridges[b].evt] = off(@, b)]
    /\ LET st == IF bridges[b].dfd = 0
                 THEN [bridges |-> bridges, microtasks |-> microtasks]
                 ELSE resolve([bridges |-> bridges, microtasks |-> microtasks],
                              b, bridges[b].dfd, Undefined)
       IN  /\ bridges' = [st.bridges EXCEPT
                            ![b].dfd = 0,
                            ![b].returns = Append(@, ReturnCall(bridges[b]))]
           /\ microtasks' = st.microtasks
    /\ UNCHANGED emitted
    /\ UNCHANGED ctxVars
\* iterator.return()
Return(b) ==
    /\ b \in Bridges
    /\ ReturnCount < MaxReturns
    /\ CallCount < MaxCalls
    /\ listeners' = [listeners EXCEPT ![bridges[b].evt] = off(@, b)]
    /\ bridges' = [bridges EXCEPT
                     ![b].dfd = 0,
                     ![b].returns = Append(@, ReturnCall(bridges[b]))]
    /\ UNCHANGED <<microtasks, emitted>>
    /\ UNCHANGED ctxVars


\* the listener arrays of all events, one after the other
RECURSIVE AllListeners(_)
AllListeners(es) ==
    IF es = {} THEN <<>>
    ELSE LET e == CHOOSE x \in es : TRUE
         IN  listeners[e] \o AllListeners(es \ {e})

\* variant of _emit: the listeners of every event are called
_emitBroadcast(evt, args) ==
    /\ emitted < MaxSignals
    /\ CallCount < MaxCalls
    /\ LET st == emit([bridges |-> bridges, microtasks |-> microtasks],
                      AllListeners(Events), args)
       IN  /\ bridges' = st.bridges
           /\ microtasks' = st.microtasks
    /\ emitted' = emitted + 1
    /\ UNCHANGED listeners
    /\ UNCHANGED ctxVars
\* _emit(evt, ...args)
_emit(evt, args) ==
    /\ emitted < MaxSignals
    /\ CallCount < MaxCalls
    /\ LET st == emit([bridges |-> bridges, microtasks |-> microtasks],
                      listeners[evt], args)
       IN  /\ bridges' = [b \in Bridges |->
                             IF bridges[b].evt = evt /\ ~Registered(b)
                             THEN [st.bridges[b] EXCEPT !.ignored = @ + 1]
                             ELSE st.bridges[b]]
           /\ microtasks' = st.microtasks
    /\ emitted' = emitted + 1
    /\ UNCHANGED listeners
    /\ UNCHANGED ctxVars

\* variant of authChange: another event's name is passed
authChangeAsDev == _emit("devChange", <<>>)
authChange == _emit("authChange", <<>>)
devChange == _emit("devChange", <<>>)
browserStatusChange == _emit("browserStatusChange", <<>>)

\* variant of Resume: the newest queued continuation runs first
ResumeLast ==
    /\ Len(microtasks) > 0
    /\ LET b == microtasks[Len(microtasks)][1]
           k == microtasks[Len(microtasks)][2]
       IN  bridges' = [bridges EXCEPT ![b].pulls[k].out =
                         <<[done |-> FALSE, value |-> bridges[b].pulls[k].val]>>]
    /\ microtasks' = SubSeq(microtasks, 1, Len(microtasks) - 1)
    /\ UNCHANGED <<listeners, emitted>>
    /\ UNCHANGED ctxVars
\* the continuation of `await dfd.promise` in next(): the call returns
\* { done: false, value: <the value the promise was fulfilled with> }
Resume ==
    /\ Len(microtasks) > 0
    /\ LET b == Head(microtasks)[1]
           k == Head(microtasks)[2]
       IN  bridges' = [bridges EXCEPT ![b].pulls[k].out =
                         <<[done |-> FALSE, value |-> bridges[b].pulls[k].val]>>]
    /\ microtasks' = Tail(microtasks)
    /\ UNCHANGED <<listeners, emitted>>
    /\ UNCHANGED ctxVars

Init ==
    /\ listeners = [e \in Events |-> <<>>]
    /\ bridges = <<>>
    /\ microtasks = <<>>
    /\ emitted = 0
    /\ projects = <<>>
    /\ activeProject = Null
    /\ adds = <<>>
    /\ cache = <<>>

Next ==
    \/ \E evt \in Events, sendInitial \in BOOLEAN : Open(evt, sendInitial)
    \/ \E b \in Bridges : Next_(b)
    \/ \E b \in Bridges : Return(b)
    \/ \E evt \in Events, args \in ArgLists : _emit(evt, args)
    \/ authChange
    \/ devChange
    \/ browserStatusChange
    \/ Resume

Spec == Init /\ [][Next]_vars

\* the event loop runs every queued microtask
FairSpec == Spec /\ WF_vars(Resume)

\* ---- properties ----

Cancelled(b) == Len(bridges[b].returns) > 0
Pulls(b) == 1..Len(bridges[b].pulls)
Fulfilled(b, k) == bridges[b].pulls[k].promise = "fulfilled"
Pending(b, k) == bridges[b].pulls[k].promise = "pending"
Settled(b, k) == Len(bridges[b].pulls[k].out) > 0
Queued(q, b, k) == \E i \in 1..Len(q) : q[i] = <<b, k>>
\* the bridge holds a promise nobody has resolved yet
Waiting(b) == bridges[b].dfd # 0 /\ Pending(b, bridges[b].dfd)
Value(v) == <<[done |-> FALSE, value |-> v]>>

\* a suspended next() call k of bridge b is fulfilled only by the first value
\* its listener hears after the call, and returns that value
DeliversNextHeard(b, k) ==
    /\ bridges[b].pulls[k].kind = "wait"
    /\ Pending(b, k) => ~Settled(b, k) /\ bridges[b].pulls[k].by = 0
    /\ Fulfilled(b, k) =>
         /\ bridges[b].pulls[k].by = bridges[b].pulls[k].born + 1
         /\ bridges[b].pulls[k].val = bridges[b].heard[bridges[b].pulls[k].by]
         /\ ~Settled(b, k) => Queued(microtasks, b, k)
    /\ Settled(b, k) =>
         /\ Fulfilled(b, k)
         /\ bridges[b].pulls[k].out = Value(bridges[b].pulls[k].val)

\* an _emit(evt, args) step fulfils the promise bridge b is waiting on with
\* the first argument and queues the suspended call
EmitFulfils(b, evt, args) ==
    (bridges[b].evt = evt /\ Registered(b) /\ Waiting(b)) =>
        /\ bridges'[b].pulls[bridges[b].dfd].promise = "fulfilled"
        /\ bridges'[b].pulls[bridges[b].dfd].val = FirstArg(args)
        /\ Queued(microtasks', b, bridges[b].dfd)

\* C1: on a bridge opened with sendInitial = false, the next() call the
\* bridge is waiting on when _emit(e, p) is called is fulfilled with p and
\* returns { done: false, value: p }; no call is fulfilled or returns before
\* its listener has heard a value after the call was made.
C1_PullGetsSignalPayload ==
    /\ [](\A b \in Bridges : ~bridges[b].sendInitial =>
            \A k \in Pulls(b) : DeliversNextHeard(b, k))
    /\ [][\A evt \in Events, args \in ArgLists : _emit(evt, args) =>
            \A b \in Bridges : ~bridges[b].sendInitial => EmitFulfils(b, evt, args)]_vars

C1_Witness ==
    \E b \in Bridges :
        /\ ~bridges[b].sendInitial
        /\ Len(bridges[b].pulls) >= 1
        /\ bridges[b].pulls[1].born = 0
        /\ bridges[b].pulls[1].out = Value("p1")

\* C2: on a bridge opened with sendInitial = true the first next() returns
\* { done: false, value: {} } in the call itself: no promise is made, dfd
\* stays undefined and no signal is needed.  Every later next() makes a
\* fresh pending promise, becomes the bridge's dfd, and is fulfilled only by
\* the next value the listener hears.
C2_InitialThenWaits ==
    /\ [](\A b \in Bridges : bridges[b].sendInitial =>
            \A k \in Pulls(b) :
                IF k = 1
                THEN /\ bridges[b].pulls[1].kind = "initial"
                     /\ bridges[b].pulls[1].promise = "none"
                     /\ bridges[b].pulls[1].out = Value(EmptyObj)
                     /\ bridges[b].hasSentInitial
                ELSE DeliversNextHeard(b, k))
    /\ [][\A b \in Bridges : (Next_(b) /\ bridges[b].sendInitial) =>
            IF Len(bridges[b].pulls) = 0
            THEN /\ bridges'[b].dfd = bridges[b].dfd
                 /\ bridges'[b].pulls[1].out = Value(EmptyObj)
                 /\ UNCHANGED <<microtasks, emitted, listeners>>
            ELSE /\ bridges'[b].dfd = Len(bridges[b].pulls) + 1
                 /\ bridges'[b].pulls[bridges'[b].dfd].promise = "pending"
                 /\ bridges'[b].pulls[bridges'[b].dfd].out = <<>>]_vars
    /\ [][\A evt \in Events, args \in ArgLists : _emit(evt, args) =>
            \A b \in Bridges : bridges[b].sendInitial => EmitFulfils(b, evt, args)]_vars

C2_Witness ==
    \E b \in Bridges :
        /\ bridges[b].sendInitial
        /\ Len(bridges[b].pulls) >= 2
        /\ bridges[b].heard = <<"p1">>
        /\ bridges[b].pulls[1].out = Value(EmptyObj)
        /\ bridges[b].pulls[2].out = Value("p1")

\* the case of C3: the first next() returned the initial value and the
\* listener heard exactly one value before the second next() was called
BetweenPulls(b) ==
    /\ bridges[b].sendInitial
    /\ Len(bridges[b].pulls) >= 2
    /\ bridges[b].pulls[1].kind = "initial"
    /\ bridges[b].pulls[2].born = bridges[b].pulls[1].born + 1

\* C3 as stated: the second next() returns the payload of the signal that
\* was fired between the two calls.
C3_SecondPullGetsEarlierSignal ==
    \A b \in Bridges : (BetweenPulls(b) /\ Settled(b, 2)) =>
        bridges[b].pulls[2].out = Value(bridges[b].heard[bridges[b].pulls[2].born])

\* C3 amended: the signal fired between the two calls is not delivered; the
\* second next() stays pending until the next signal on the event and
\* returns that signal's payload.  return() yields
\* { done: true, value: undefined }, and an _emit on the event after it
\* changes nothing of the bridge.
C3_SecondPullGetsLaterSignal ==
    /\ [](\A b \in Bridges : BetweenPulls(b) =>
            /\ DeliversNextHeard(b, 2)
            /\ Fulfilled(b, 2) => bridges[b].pulls[2].by > bridges[b].pulls[2].born
            /\ \A i \in 1..Len(bridges[b].returns) :
                 bridges[b].returns[i].out = [done |-> TRUE, value |-> Undefined])
    /\ [][\A evt \in Events, args \in ArgLists : _emit(evt, args) =>
            \A b \in Bridges : (Cancelled(b) /\ bridges[b].evt = evt) =>
                bridges'[b] = [bridges[b] EXCEPT !.ignored = @ + 1]]_vars

C3_Witness ==
    \E b \in Bridges :
        /\ BetweenPulls(b)
        /\ bridges[b].heard = <<"p1", Undefined>>
        /\ bridges[b].pulls[2].out = Value(Undefined)
        /\ Cancelled(b)
        /\ bridges[b].ignored >= 1

\* C4: a value the listener hears while the bridge waits on no unresolved
\* promise changes nothing of the bridge and queues nothing; next() always
\* starts with an unresolved promise; a promise is fulfilled only by a value
\* heard after its next() call.
C4_SignalWithoutWaiterDropped ==
    /\ [](\A b \in Bridges : \A k \in Pulls(b) : Fulfilled(b, k) =>
            /\ bridges[b].pulls[k].by > bridges[b].pulls[k].born
            /\ bridges[b].pulls[k].val = bridges[b].heard[bridges[b].pulls[k].by])
    /\ [][\A evt \in Events, args \in ArgLists : _emit(evt, args) =>
            \A b \in Bridges :
                (bridges[b].evt = evt /\ Registered(b) /\ ~Waiting(b)) =>
                    /\ bridges'[b] = [bridges[b] EXCEPT
                                        !.heard = Append(@, FirstArg(args))]
                    /\ \A k \in Pulls(b) :
                         Queued(microtasks', b, k) => Queued(microtasks, b, k)]_vars
    /\ [][\A b \in Bridges : Next_(b) =>
            /\ microtasks' = microtasks
            /\ \A k \in (Len(bridges[b].pulls) + 1)..Len(bridges'[b].pulls) :
                 bridges'[b].pulls[k].kind = "wait" =>
                    bridges'[b].pulls[k].promise = "pending"]_vars

C4_Witness ==
    \E b \in Bridges :
        /\ ~bridges[b].sendInitial
        /\ Len(bridges[b].pulls) >= 1
        /\ bridges[b].pulls[1].born = 1
        /\ bridges[b].heard = <<"p1", Undefined>>
        /\ bridges[b].pulls[1].out = Value(Undefined)

Without(ls, b) == SelectSeq(ls, LAMBDA x : x # b)

\* C5: return() removes the bridge's own listener from its event and no
\* other: the event's listener array is the old one without it (one shorter
\* when it was registered), the other events' arrays are unchanged, and a
\* bridge return() was called on is not registered.
C5_CancelRemovesOwnListener ==
    /\ [](\A b \in Bridges : Cancelled(b) => ~Registered(b))
    /\ [][\A b \in Bridges : Return(b) =>
            /\ listeners'[bridges[b].evt] = Without(listeners[bridges[b].evt], b)
            /\ Registered(b) =>
                 Len(listeners'[bridges[b].evt]) = Len(listeners[bridges[b].evt]) - 1
            /\ \A e \in Events \ {bridges[b].evt} : listeners'[e] = listeners[e]]_vars

C5_Witness ==
    \E b1, b2 \in Bridges :
        /\ b1 < b2
        /\ bridges[b1].evt = bridges[b2].evt
        /\ Len(bridges[b1].returns) = 1
        /\ Registered(b2)

\* C6: return() called while a next() is suspended on an unresolved promise
\* deregisters the listener, sets dfd to undefined and resolves nothing; an
\* unresolved promise of a bridge return() was called on stays unresolved
\* in every later step.
C6_CancelLeavesPullPending ==
    /\ [][\A b \in Bridges : (Return(b) /\ Waiting(b)) =>
            /\ ~(Registered(b))'
            /\ bridges'[b].dfd = 0
            /\ bridges'[b].pulls = bridges[b].pulls
            /\ microtasks' = microtasks]_vars
    /\ [][\A b \in Bridges : Cancelled(b) =>
            \A k \in Pulls(b) : Pending(b, k) =>
                bridges'[b].pulls[k] = bridges[b].pulls[k]]_vars

C6_Witness ==
    \E b \in Bridges :
        /\ Cancelled(b)
        /\ bridges[b].returns[1].dfd # 0
        /\ Pending(b, bridges[b].returns[1].dfd)
        /\ bridges[b].ignored >= 1

\* C7: once return() has been called on a bridge, no next() call of the
\* bridge returns a value: in every step from a state where the bridge is
\* cancelled, the next() calls that have returned are the ones that had
\* returned before, and the listener is not registered again.
C7_NoValueAfterCancel ==
    [][\A b \in Bridges : Cancelled(b) =>
          /\ ~(Registered(b))'
          /\ \A k \in 1..Len(bridges'[b].pulls) :
               Len(bridges'[b].pulls[k].out) > 0 =>
                  (k \in Pulls(b) /\ Settled(b, k))]_vars

\* C8: a return() call on a bridge return() was already called on yields
\* { done: true, value: undefined } like the first, leaves every listener
\* array as it is, leaves dfd undefined and changes nothing else of any
\* bridge.
C8_CancelIdempotent ==
    /\ [](\A b \in Bridges : \A i \in 1..Len(bridges[b].returns) :
            bridges[b].returns[i].out = [done |-> TRUE, value |-> Undefined])
    /\ [][\A b \in Bridges : (Return(b) /\ Cancelled(b)) =>
            /\ listeners' = listeners
            /\ microtasks' = microtasks
            /\ bridges'[b].dfd = 0
            /\ bridges'[b].returns[Len(bridges[b].returns) + 1].out =
                 bridges[b].returns[1].out
            /\ \A f \in {"evt", "sendInitial", "hasSentInitial", "pulls", "heard"} :
                 bridges'[b][f] = bridges[b][f]
            /\ \A b2 \in Bridges \ {b} : bridges'[b2] = bridges[b2]]_vars

C8_Witness ==
    \E b1, b2 \in Bridges :
        /\ b1 # b2
        /\ bridges[b1].evt = bridges[b2].evt
        /\ Len(bridges[b1].returns) = 2
        /\ Registered(b2)
        /\ ~Cancelled(b2)

\* C9: one _emit on an event fulfils the pending promise of every registered
\* bridge of that event that waits on one, each with the same first
\* argument, and queues each suspended call; every bridge is in its event's
\* listener array at most once.
C9_EveryBridgeGetsSignal ==
    /\ [](\A e \in Events : \A i, j \in 1..Len(listeners[e]) :
            listeners[e][i] = listeners[e][j] => i = j)
    /\ [][\A evt \in Events, args \in ArgLists : _emit(evt, args) =>
            \A b1, b2 \in Bridges :
                (/\ b1 # b2
                 /\ bridges[b1].evt = evt /\ bridges[b2].evt = evt
                 /\ Registered(b1) /\ Registered(b2)
                 /\ Waiting(b1) /\ Waiting(b2)) =>
                    /\ bridges'[b1].pulls[bridges[b1].dfd].promise = "fulfilled"
                    /\ bridges'[b2].pulls[bridges[b2].dfd].promise = "fulfilled"
                    /\ bridges'[b1].pulls[bridges[b1].dfd].val = FirstArg(args)
                    /\ bridges'[b2].pulls[bridges[b2].dfd].val = FirstArg(args)
                    /\ Queued(microtasks', b1, bridges[b1].dfd)
                    /\ Queued(microtasks', b2, bridges[b2].dfd)]_vars

C9_Witness ==
    \E b1, b2 \in Bridges :
        /\ b1 # b2
        /\ bridges[b1].evt = bridges[b2].evt
        /\ emitted = 1
        /\ Len(bridges[b1].pulls) = 1 /\ Len(bridges[b2].pulls) = 1
        /\ bridges[b1].pulls[1].out = Value("p1")
        /\ bridges[b2].pulls[1].out = Value("p1")

WaitPulls(b) == {k \in Pulls(b) : bridges[b].pulls[k].kind = "wait"}

\* C10: on one bridge the values the suspended next() calls return are
\* values its listener heard, taken in the order heard: a later call is
\* fulfilled by a later heard value than an earlier call (none twice, none
\* out of order), each call returns exactly the one value that fulfilled
\* it, and the calls return in the order they were fulfilled.
C10_DeliveredInSignalOrder ==
    \A b \in Bridges :
        /\ \A k \in WaitPulls(b) :
             /\ Fulfilled(b, k) =>
                  /\ bridges[b].pulls[k].by \in 1..Len(bridges[b].heard)
                  /\ bridges[b].pulls[k].val = bridges[b].heard[bridges[b].pulls[k].by]
             /\ Settled(b, k) =>
                  /\ Fulfilled(b, k)
                  /\ bridges[b].pulls[k].out =
                       Value(bridges[b].heard[bridges[b].pulls[k].by])
        /\ \A j, k \in WaitPulls(b) : j < k =>
             /\ (Fulfilled(b, j) /\ Fulfilled(b, k)) =>
                  bridges[b].pulls[j].by < bridges[b].pulls[k].by
             /\ (Fulfilled(b, j) /\ Settled(b, k)) => Settled(b, j)

C10_Witness ==
    \E b \in Bridges :
        /\ Len(bridges[b].pulls) = 2
        /\ bridges[b].heard = <<"p1", "p1", Undefined>>
        /\ bridges[b].pulls[1].by = 1 /\ bridges[b].pulls[1].out = Value("p1")
        /\ bridges[b].pulls[2].by = 3 /\ bridges[b].pulls[2].out = Value(Undefined)

\* what of a bridge the program holds: everything but the history fields
Held(br) ==
    [evt |-> br.evt, sendInitial |-> br.sendInitial,
     hasSentInitial |-> br.hasSentInitial, dfd |-> br.dfd,
     pulls |-> br.pulls, returns |-> br.returns]

\* C11: an _emit on an event with no registered listener is a step like any
\* other call (nothing is thrown) and changes no listener array, queues
\* nothing and changes nothing the program holds of any bridge:
\* hasSentInitial, dfd and every promise are as before.
C11_SignalWithoutListeners ==
    [][\A evt \in Events, args \in ArgLists :
          (_emit(evt, args) /\ Len(listeners[evt]) = 0) =>
              /\ listeners' = listeners
              /\ microtasks' = microtasks
              /\ Len(bridges') = Len(bridges)
              /\ \A b \in Bridges :
                   /\ Held(bridges'[b]) = Held(bridges[b])
                   /\ bridges'[b].heard = bridges[b].heard]_vars

C11_Witness ==
    \E b1, b2 \in Bridges :
        /\ b1 < b2
        /\ bridges[b1].evt # bridges[b2].evt
        /\ Cancelled(b2)
        /\ bridges[b2].ignored >= 1
        /\ \A b \in Bridges \ {b2} : bridges[b].evt # bridges[b2].evt
        /\ Waiting(b1)
        /\ bridges[b1].heard = <<>>

\* how many times bridge b's listener is in a listener array
Count(ls, b) == Cardinality({i \in 1..Len(ls) : ls[i] = b})

\* C13: subscribeTo registers the listener once, at the end of its event's
\* listener array; next() changes no listener array; a bridge return() was
\* not called on has its listener registered exactly once, so every _emit on
\* its event fulfils the promise it waits on; and a fulfilled next() call
\* eventually returns: until it has, its continuation is in the microtask
\* queue, and the queue, being run, is empty again and again.
C13_RegisteredFromOpenToCancel ==
    /\ [](\A b \in Bridges : \A e \in Events :
            Count(listeners[e], b) =
               (IF e = bridges[b].evt /\ ~Cancelled(b) THEN 1 ELSE 0))
    /\ [][\A evt \in Events, sendInitial \in BOOLEAN : Open(evt, sendInitial) =>
            listeners' = [listeners EXCEPT ![evt] = Append(@, Len(bridges) + 1)]]_vars
    /\ [][\A b \in Bridges : Next_(b) => listeners' = listeners]_vars
    /\ [][\A evt \in Events, args \in ArgLists : _emit(evt, args) =>
            \A b \in Bridges :
                (bridges[b].evt = evt /\ ~Cancelled(b) /\ Waiting(b)) =>
                    /\ bridges'[b].pulls[bridges[b].dfd].promise = "fulfilled"
                    /\ bridges'[b].pulls[bridges[b].dfd].val = FirstArg(args)]_vars
    /\ [](\A b \in Bridges : \A k \in Pulls(b) :
            (Fulfilled(b, k) /\ ~Settled(b, k)) => Queued(microtasks, b, k))
    /\ []<>(Len(microtasks) = 0)

C13_Witness ==
    \E b \in Bridges :
        /\ ~Cancelled(b)
        /\ Registered(b)
        /\ Len(bridges[b].pulls) = 2
        /\ bridges[b].pulls[1].kind = "wait"
        /\ bridges[b].pulls[1].out = Value(Undefined)
        /\ bridges[b].pulls[2].out = Value("p1")

\* C14 as stated: the bridge holds a waiter only while its promise is
\* unresolved; a signal that resolves the waiter clears it.
C14_WaiterClearedOnResolve ==
    \A b \in Bridges : bridges[b].dfd # 0 => Pending(b, bridges[b].dfd)

\* C14 amended: the bridge holds at most one promise, dfd, which is the
\* promise of its latest next() call.  A suspended next() sets it to a fresh
\* unresolved promise and only return() sets it to undefined: a signal
\* resolves the promise but dfd keeps referring to it, resolved, until the
\* next next() or return().
C14_WaiterKeptUntilNextPull ==
    /\ [](\A b \in Bridges :
            /\ bridges[b].dfd \in {0, Len(bridges[b].pulls)}
            /\ bridges[b].dfd # 0 => bridges[b].pulls[bridges[b].dfd].kind = "wait")
    /\ [][\A evt \in Events, args \in ArgLists : _emit(evt, args) =>
            \A b \in Bridges :
                /\ bridges'[b].dfd = bridges[b].dfd
                /\ (bridges[b].evt = evt /\ Registered(b) /\ Waiting(b)) =>
                      bridges'[b].pulls[bridges[b].dfd].promise = "fulfilled"]_vars
    /\ [][Resume => \A b \in Bridges : bridges'[b].dfd = bridges[b].dfd]_vars
    /\ [][\A b \in Bridges :
            (Next_(b) /\ (bridges[b].hasSentInitial \/ ~bridges[b].sendInitial)) =>
                /\ bridges'[b].dfd = Len(bridges[b].pulls) + 1
                /\ bridges'[b].pulls[bridges'[b].dfd].promise = "pending"]_vars
    /\ [][\A b \in Bridges :
            (bridges[b].dfd # 0 /\ bridges'[b].dfd = 0) => Return(b)]_vars

C14_Witness ==
    \E b \in Bridges :
        /\ bridges[b].dfd # 0
        /\ Settled(b, bridges[b].dfd)
        /\ bridges[b].pulls[bridges[b].dfd].by = 1
        /\ Len(bridges[b].heard) = 2

\* the state of a bridge in the terms of the state machine
State(br) ==
    IF Len(br.returns) > 0 THEN "CANCELLED"
    ELSE IF br.sendInitial /\ ~br.hasSentInitial THEN "OPEN_AWAITING_INITIAL"
    ELSE "OPEN_LIVE"

Forward ==
    {<<"OPEN_AWAITING_INITIAL", "OPEN_LIVE">>,
     <<"OPEN_AWAITING_INITIAL", "CANCELLED">>,
     <<"OPEN_LIVE", "CANCELLED">>}

\* C15: a bridge starts with hasSentInitial false, in OPEN_AWAITING_INITIAL
\* when sendInitial is true and in OPEN_LIVE when it is false; its state only
\* moves forward; hasSentInitial never goes back to false; the initial value
\* { done: false, value: {} } is returned by the first next() of a
\* sendInitial bridge and by no other call of any bridge.
C15_InitialOnceThenLive ==
    /\ [](\A b \in Bridges :
            /\ bridges[b].hasSentInitial <=>
                 (bridges[b].sendInitial /\ Len(bridges[b].pulls) >= 1)
            /\ \A k \in Pulls(b) :
                 /\ bridges[b].pulls[k].kind = "initial" <=>
                      (bridges[b].sendInitial /\ k = 1)
                 /\ bridges[b].pulls[k].out = Value(EmptyObj) <=>
                      bridges[b].pulls[k].kind = "initial")
    /\ [][\A evt \in Events, sendInitial \in BOOLEAN : Open(evt, sendInitial) =>
            /\ ~bridges'[Len(bridges) + 1].hasSentInitial
            /\ State(bridges'[Len(bridges) + 1]) =
                 (IF sendInitial THEN "OPEN_AWAITING_INITIAL" ELSE "OPEN_LIVE")]_vars
    /\ [][\A b \in Bridges :
            /\ bridges[b].hasSentInitial => bridges'[b].hasSentInitial
            /\ \/ State(bridges'[b]) = State(bridges[b])
               \/ <<State(bridges[b]), State(bridges'[b])>> \in Forward]_vars

C15_Witness ==
    \E b \in Bridges :
        /\ bridges[b].sendInitial
        /\ Len(bridges[b].pulls) = 2
        /\ bridges[b].pulls[1].kind = "initial"
        /\ Settled(b, 2)
        /\ Cancelled(b)
        /\ bridges[b].returns[1].dfd = 2

\* C16: of the values a listener hears after a next() call, the first one
\* fulfils the call and is the value it returns; a value heard while dfd is
\* already resolved changes no next() call of the bridge and queues nothing,
\* and a later next() call starts after it, so it is never delivered.
C16_FirstSignalWins ==
    /\ [](\A b \in Bridges : \A k \in WaitPulls(b) :
            /\ Fulfilled(b, k) =>
                 /\ bridges[b].pulls[k].by = bridges[b].pulls[k].born + 1
                 /\ bridges[b].pulls[k].val =
                      bridges[b].heard[bridges[b].pulls[k].born + 1]
            /\ Settled(b, k) =>
                 bridges[b].pulls[k].out =
                    Value(bridges[b].heard[bridges[b].pulls[k].born + 1]))
    /\ [][\A evt \in Events, args \in ArgLists : _emit(evt, args) =>
            \A b \in Bridges :
                (/\ bridges[b].evt = evt /\ Registered(b)
                 /\ bridges[b].dfd # 0 /\ Fulfilled(b, bridges[b].dfd)) =>
                    /\ bridges'[b].pulls = bridges[b].pulls
                    /\ bridges'[b].dfd = bridges[b].dfd
                    /\ \A k \in Pulls(b) :
                         Queued(microtasks', b, k) <=> Queued(microtasks, b, k)]_vars
    /\ [][\A b \in Bridges : Next_(b) =>
            bridges'[b].pulls[Len(bridges[b].pulls) + 1].born =
               Len(bridges[b].heard)]_vars

C16_Witness ==
    \E b \in Bridges :
        /\ ~bridges[b].sendInitial
        /\ Len(bridges[b].pulls) = 2
        /\ bridges[b].heard = <<"p1", Undefined, "p1">>
        /\ bridges[b].pulls[1].born = 0
        /\ bridges[b].pulls[1].out = Value("p1")
        /\ bridges[b].pulls[2].born = 2
        /\ bridges[b].pulls[2].out = Value("p1")

\* what a step that signals event e with value v does to the bridges: a
\* bridge of another event is unchanged, a registered bridge of e hears v
SignalsOnly(e, v) ==
    \A b \in Bridges :
        /\ bridges[b].evt # e => bridges'[b] = bridges[b]
        /\ (bridges[b].evt = e /\ Registered(b)) =>
              bridges'[b].heard = Append(bridges[b].heard, v)
        /\ (bridges[b].evt = e /\ ~Registered(b)) =>
              bridges'[b].ignored = bridges[b].ignored + 1

\* C17: an _emit on an event changes nothing of a bridge opened on another
\* event and queues no next() call of it; authChange(), devChange() and
\* browserStatusChange() each signal the event of their own name, with no
\* value.
C17_OnlyOwnEvent ==
    /\ [][\A evt \in Events, args \in ArgLists : _emit(evt, args) =>
            /\ SignalsOnly(evt, FirstArg(args))
            /\ \A b \in Bridges : bridges[b].evt # evt =>
                 \A k \in Pulls(b) :
                    Queued(microtasks', b, k) <=> Queued(microtasks, b, k)]_vars
    /\ [][authChange => SignalsOnly("authChange", Undefined)]_vars
    /\ [][devChange => SignalsOnly("devChange", Undefined)]_vars
    /\ [][browserStatusChange => SignalsOnly("browserStatusChange", Undefined)]_vars

C17_Witness ==
    \E b1, b2 \in Bridges :
        /\ b1 < b2
        /\ bridges[b1].evt = "devChange"
        /\ bridges[b2].evt = "authChange"
        /\ bridges[b2].heard = <<Undefined>>
        /\ bridges[b1].heard = <<>>
        /\ Waiting(b1)
        /\ emitted = 1

\* the bridges opened on e that return() was not called on
Live(e) == {b \in Bridges : bridges[b].evt = e /\ ~Cancelled(b)}

\* C19: for every event the number of registered listeners is the number of
\* bridges opened on it that return() was not called on; next(), _emit and
\* the continuation of next() change no listener array, so a bridge keeps
\* its listener for as long as return() is not called.
C19_ListenersAreLiveBridges ==
    /\ [](\A e \in Events :
            /\ Len(listeners[e]) = Cardinality(Live(e))
            /\ \A b \in Live(e) : Registered(b))
    /\ [][((\E b \in Bridges : Next_(b))
            \/ (\E evt \in Events, args \in ArgLists : _emit(evt, args))
            \/ Resume) => listeners' = listeners]_vars
    /\ [][\A b \in Bridges : (Registered(b) /\ ~(Registered(b))') => Return(b)]_vars

C19_Witness ==
    \E b1, b2 \in Bridges :
        /\ b1 # b2
        /\ bridges[b1].evt = bridges[b2].evt
        /\ Cancelled(b1)
        /\ ~Cancelled(b2)
        /\ Len(bridges[b2].pulls) = 1
        /\ bridges[b2].pulls[1].out = Value("p1")
        /\ Len(listeners[bridges[b2].evt]) = 1

\* C20: a next() call made while the bridge waits on the promise of an
\* earlier call makes dfd the new call's promise; the earlier promise is no
\* longer dfd, never becomes dfd again and never changes, so the next _emit
\* on the event fulfils the later call alone and the earlier call never
\* returns.
C20_SecondPullReplacesFirst ==
    /\ [][\A b \in Bridges : (Next_(b) /\ Waiting(b)) =>
            /\ bridges'[b].dfd = Len(bridges[b].pulls) + 1
            /\ bridges'[b].pulls[bridges'[b].dfd].promise = "pending"
            /\ bridges'[b].pulls[bridges[b].dfd] = bridges[b].pulls[bridges[b].dfd]]_vars
    /\ [][\A b \in Bridges : \A k \in Pulls(b) :
            (Pending(b, k) /\ bridges[b].dfd # k) =>
                /\ bridges'[b].dfd # k
                /\ bridges'[b].pulls[k] = bridges[b].pulls[k]
                /\ ~Queued(microtasks', b, k)]_vars
    /\ [][\A evt \in Events, args \in ArgLists : _emit(evt, args) =>
            \A b \in Bridges :
                (bridges[b].evt = evt /\ Registered(b) /\ Waiting(b)) =>
                    \A k \in Pulls(b) :
                        bridges'[b].pulls[k].promise = "fulfilled" <=>
                           (k = bridges[b].dfd \/ Fulfilled(b, k))]_vars

C20_Witness ==
    \E b \in Bridges :
        /\ Len(bridges[b].pulls) = 2
        /\ bridges[b].pulls[1].kind = "wait"
        /\ bridges[b].pulls[2].born = bridges[b].pulls[1].born
        /\ Pending(b, 1)
        /\ bridges[b].pulls[2].out = Value("p1")
        /\ Len(bridges[b].heard) = 2

\* ---- ProjectActions.addProject ----

\* how many addProject calls are made
MaxAdds == 2

\* An absolute POSIX path is the sequence of its parts, each written after a
\* "/": <<"a">> is "/a", <<"a", "">> is "/a/", <<"", "a">> is "//a" and
\* <<"">> is "/".  Two paths are the same string iff they are the same sequence.
RootDir == <<"">>
\* the paths addProject is called with: "/a", "/a/", "//a", "/a/..", "/a/a"
Paths == {<<"a">>, <<"a", "">>, <<"", "a">>, <<"a", "..">>, <<"a", "a">>}

\* the path without its trailing slashes
RECURSIVE StripSlashes(_)
StripSlashes(p) ==
    IF Len(p) = 0 THEN p
    ELSE IF p[Len(p)] = "" THEN StripSlashes(SubSeq(p, 1, Len(p) - 1))
    ELSE p

\* path.parse(p) of an absolute path: base is the last part that is not
\* empty, dir is the text before the slash in front of base, "/" when that
\* text is empty; dir is not normalised
parse(p) ==
    LET q == StripSlashes(p)
    IN  IF Len(q) = 0 THEN [dir |-> RootDir, base |-> ""]
        ELSE [dir |-> IF Len(q) = 1 THEN RootDir ELSE SubSeq(q, 1, Len(q) - 1),
              base |-> q[Len(q)]]

\* path.normalize of an absolute path without a trailing slash: empty parts
\* and "." are dropped, ".." removes the part before it and is dropped at the root
RECURSIVE normalizeParts(_, _)
normalizeParts(p, acc) ==
    IF Len(p) = 0 THEN acc
    ELSE IF Head(p) \in {"", "."} THEN normalizeParts(Tail(p), acc)
    ELSE IF Head(p) = ".."
         THEN normalizeParts(Tail(p), IF Len(acc) = 0 THEN acc
                                      ELSE SubSeq(acc, 1, Len(acc) - 1))
    ELSE normalizeParts(Tail(p), Append(acc, Head(p)))

\* path.join(dir, base) = normalize(dir + "/" + base); an empty base is skipped
join(dir, base) ==
    LET joined == IF base = "" THEN dir ELSE dir \o <<base>>
        parts == normalizeParts(joined, <<>>)
    IN  IF Len(parts) = 0 THEN RootDir ELSE parts

\* what ctx.fs.stat(fullPath) settles with: a directory, another kind of
\* file, or a rejection because nothing is there
StatResults == {"directory", "file", "ENOENT"}

\* getDirectoryPath(projectRoot), given what fs.stat settles with: the
\* normalised path of a directory, the unnormalised dir of a file, or the
\* Error thrown from the catch block
getDirectoryPath(projectRoot, st) ==
    LET p == parse(projectRoot)
        fullPath == join(p.dir, p.base)
    IN  IF st = "ENOENT" THEN [threw |-> TRUE, value |-> projectRoot]
        ELSE IF st = "directory" THEN [threw |-> FALSE, value |-> fullPath]
        ELSE [threw |-> FALSE, value |-> p.dir]

Adds == 1..Len(adds)

\* this.projects.find((x) => x.projectRoot === projectRoot)
find(ps, projectRoot) ==
    \E i \in 1..Len(ps) : ps[i].projectRoot = projectRoot

\* addProject(args) up to `await this.ctx.fs.stat(fullPath)` in
\* getDirectoryPath.  started is history: how many roots had been inserted
\* into the cache when the call was made; pushed is history: the call pushed.
addProject(path, open) ==
    /\ Len(adds) < MaxAdds
    /\ adds' = Append(adds, [path |-> path, open |-> open, pc |-> "stat",
                             result |-> Null,
                             started |-> Len(cache), pushed |-> FALSE])
    /\ UNCHANGED <<projects, activeProject, cache>>
    /\ UNCHANGED emitterVars

\* fs.stat settles and getDirectoryPath continues to its return or throw;
\* addProject is still waiting for it
stat(c, st) ==
    /\ c \in Adds
    /\ adds[c].pc = "stat"
    /\ adds' = [adds EXCEPT ![c].pc = "getDirectoryPath",
                            ![c].result = getDirectoryPath(adds[c].path, st)]
    /\ UNCHANGED <<projects, activeProject, cache>>
    /\ UNCHANGED emitterVars

\* variant of the continuation: the root is pushed without looking for it
addProjectPushes(c) ==
    /\ c \in Adds
    /\ adds[c].pc = "getDirectoryPath"
    /\ IF adds[c].result.threw
       THEN /\ adds' = [adds EXCEPT ![c].pc = "threw"]
            /\ UNCHANGED <<projects, cache>>
       ELSE LET projectRoot == adds[c].result.value
            IN  /\ projects' = Append(projects, [projectRoot |-> projectRoot])
                /\ cache' = Append(cache, projectRoot)
                /\ adds' = [adds EXCEPT
                              ![c].pc = IF adds[c].open THEN "setActiveProject"
                                        ELSE "returned",
                              ![c].pushed = TRUE]
    /\ UNCHANGED activeProject
    /\ UNCHANGED emitterVars
\* the continuation of `await this.getDirectoryPath(args.path)`: the call
\* throws what getDirectoryPath threw, or finds or pushes the root, and
\* calls setActiveProject when args.open
addProjectContinues(c) ==
    /\ c \in Adds
    /\ adds[c].pc = "getDirectoryPath"
    /\ IF adds[c].result.threw
       THEN /\ adds' = [adds EXCEPT ![c].pc = "threw"]
            /\ UNCHANGED <<projects, cache>>
       ELSE LET projectRoot == adds[c].result.value
                found == find(projects, projectRoot)
            IN  /\ IF ~found
                   THEN /\ projects' = Append(projects, [projectRoot |-> projectRoot])
                        /\ cache' = Append(cache, projectRoot)
                   ELSE UNCHANGED <<projects, cache>>
                /\ adds' = [adds EXCEPT
                              ![c].pc = IF adds[c].open THEN "setActiveProject"
                                        ELSE "returned",
                              ![c].pushed = ~found]
    /\ UNCHANGED activeProject
    /\ UNCHANGED emitterVars

\* setActiveProject(projectRoot) when both isFirstTimeAccessing calls have
\* resolved: activeProject is assigned and addProject returns
setActiveProject(c) ==
    /\ c \in Adds
    /\ adds[c].pc = "setActiveProject"
    /\ activeProject' = adds[c].result.value
    /\ adds' = [adds EXCEPT ![c].pc = "returned"]
    /\ UNCHANGED <<projects, cache>>
    /\ UNCHANGED emitterVars

\* the roots of a projects list
Project(r) == [projectRoot |-> r]

\* the projects lists the calls start from
InitialProjects ==
    {<<>>, <<Project(<<"a">>)>>, <<Project(<<"a">>), Project(RootDir)>>}

ProjectInit ==
    /\ projects \in InitialProjects
    /\ activeProject = Null
    /\ adds = <<>>
    /\ cache = <<>>
    /\ listeners = [e \in Events |-> <<>>]
    /\ bridges = <<>>
    /\ microtasks = <<>>
    /\ emitted = 0

ProjectNext ==
    \/ \E path \in Paths, open \in BOOLEAN : addProject(path, open)
    \/ \E c \in Adds, st \in StatResults : stat(c, st)
    \/ \E c \in Adds : addProjectContinues(c)
    \/ \E c \in Adds : setActiveProject(c)

ProjectSpec == ProjectInit /\ [][ProjectNext]_vars

\* ---- C21 ----

Roots(ps) == {ps[i].projectRoot : i \in 1..Len(ps)}
NoDuplicates(ps) ==
    \A i, j \in 1..Len(ps) : ps[i].projectRoot = ps[j].projectRoot => i = j

\* getDirectoryPath of the call threw: the path does not exist
Missing(c) == adds[c].pc # "stat" /\ adds[c].result.threw

C21_MissingPathSeen ==
    \E c \in Adds, d \in Adds :
        /\ Missing(c) /\ adds[c].pc = "threw"
        /\ adds[d].pushed /\ adds[d].pc = "returned"
        /\ adds[c].started = Len(cache)

====
